---- MODULE Spec2Model ----
(***************************************************************************)
(* Model of update_riot_itemset_ids.py: the identifier map, the walk that  *)
(* replaces item ids inside one item-set JSON value, the per-file          *)
(* processor (load, walk, backup, write-back) and the run orchestrator.    *)
(***************************************************************************)
EXTENDS Integers, Sequences, FiniteSets, TLC

\* Number of files the glob locates under the root directory.
MaxFiles == 2
\* Longest "blocks" list / "items" list of the item sets given to the walk.
MaxBlocks == 2
MaxItems == 1

VARIABLES
    disk,            \* path -> content of the located file
    bak,             \* path -> content of <path>.bak (Absent when there is none)
    run,             \* number of run_fix calls started so far
    phase,           \* "idle" | "running" | "returned" | "aborted"
    apply_changes,   \* run_fix argument
    backup,          \* run_fix argument
    idx,             \* position of run_fix's loop in the located files
    pc,              \* position inside process_file: "load" | "backup" | "write"
    obj,             \* process_file local: the parsed (and walked) JSON value
    replacements,    \* process_file local
    stats,           \* run_fix local: RunStats
    changes,         \* run_fix local: champion -> old_id -> count
    warnings,        \* result.warnings
    modified_files,  \* result.modified_files
    champions_seen,  \* run_fix local
    rets,            \* history: file index -> what process_file returned in this run
    wfail,           \* history: file indexes whose backup copy or write-back failed in this run
    start,           \* history: disk and bak when this run started
    prev,            \* history: the previous run (arguments, outcome, result)
    call,            \* one direct call of replace_ids_in_itemset (SpecReplace)
    gui              \* start_gui's widgets, Tk variables, queues and worker thread (SpecGui)

vars == << disk, bak, run, phase, apply_changes, backup, idx, pc, obj, replacements,
           stats, changes, warnings, modified_files, champions_seen, rets, wfail,
           start, prev, call, gui >>

----------------------------------------------------------------------------
(* Identifier map *)

\* ItemTable with one new id that is itself a key of the table.
ItemTable_NewIdIsKey ==
    { << "2065", "322065" >>, << "3002", "323002" >>, << "3003", "3004" >>,
      << "3004", "323004" >>, << "3050", "323050" >>, << "3075", "323075" >>,
      << "3107", "323107" >>, << "3109", "323109" >>, << "3110", "323110" >>,
      << "3119", "323119" >>, << "3190", "323190" >>, << "3222", "323222" >>,
      << "3504", "323504" >>, << "4005", "324005" >>, << "6616", "326616" >>,
      << "6617", "326617" >>, << "6620", "326620" >>, << "6621", "326621" >>,
      << "6657", "326657" >>, << "8020", "328020" >> }

\* The entries of EMBEDDED_ITEM_MAP: << key, ItemInfo.new_id >>
ItemTable ==
    { << "2065", "322065" >>, << "3002", "323002" >>, << "3003", "323003" >>,
      << "3004", "323004" >>, << "3050", "323050" >>, << "3075", "323075" >>,
      << "3107", "323107" >>, << "3109", "323109" >>, << "3110", "323110" >>,
      << "3119", "323119" >>, << "3190", "323190" >>, << "3222", "323222" >>,
      << "3504", "323504" >>, << "4005", "324005" >>, << "6616", "326616" >>,
      << "6617", "326617" >>, << "6620", "326620" >>, << "6621", "326621" >>,
      << "6657", "326657" >>, << "8020", "328020" >> }

EMBEDDED_ITEM_MAP ==
    [k \in {e[1] : e \in ItemTable} |-> (CHOOSE e \in ItemTable : e[1] = k)[2]]

\* build_maps()[0]: old_id -> new_id
build_maps == [k \in DOMAIN EMBEDDED_ITEM_MAP |-> EMBEDDED_ITEM_MAP[k]]

\* The discriminator run_fix is called with (map_code="SR").
MAP_CODE == "SR"

\* dict.get(key): None (here "") when the key is absent.
MapGet(m, k) == IF k \in DOMAIN m THEN m[k] ELSE ""

----------------------------------------------------------------------------
(* JSON values, as far as the code looks into them *)

\* The value under "id": a JSON string, a JSON integer, or null / no "id" key.
StrId(s) == [t |-> "str", n |-> 0, s |-> s]
IntId(n) == [t |-> "int", n |-> n, s |-> ""]
NullId == [t |-> "null", n |-> 0, s |-> ""]

\* str(raw_id)
Str(raw) == IF raw.t = "int" THEN ToString(raw.n) ELSE raw.s

\* An element of "items": an object (with its "id") or anything else.
DictItem(id) == [isDict |-> TRUE, id |-> id]
NonDictItem == [isDict |-> FALSE, id |-> NullId]

\* An element of "blocks": an object whose "items" is a list, an object whose
\* "items" is missing or no list, or anything else.
DictBlock(items) == [isDict |-> TRUE, itemsIsList |-> TRUE, items |-> items]
NoItemsBlock == [isDict |-> TRUE, itemsIsList |-> FALSE, items |-> << >>]
NonDictBlock == [isDict |-> FALSE, itemsIsList |-> FALSE, items |-> << >>]

\* The top-level value: an object (with "map" and "blocks") or anything else.
DictTop(map, blocks) == [isDict |-> TRUE, map |-> map, blocksIsList |-> TRUE, blocks |-> blocks]
NoBlocksTop(map) == [isDict |-> TRUE, map |-> map, blocksIsList |-> FALSE, blocks |-> << >>]
NonDictTop == [isDict |-> FALSE, map |-> "", blocksIsList |-> FALSE, blocks |-> << >>]

EmptyMap == [x \in {} |-> 0]

SeqsUpTo(S, n) == UNION {[1..k -> S] : k \in 0..n}

----------------------------------------------------------------------------
(* replace_ids_in_itemset *)

\* changes.setdefault(champion, {}); champ_items[item_id] = champ_items.get(item_id, 0) + 1
LedgerAdd(ch, champion, item_id) ==
    LET champ_items == IF champion \in DOMAIN ch THEN ch[champion] ELSE EmptyMap
        old == IF item_id \in DOMAIN champ_items THEN champ_items[item_id] ELSE 0
    IN  (champion :> ((item_id :> (old + 1)) @@ champ_items)) @@ ch

\* Lines 206-211, for an item whose "id" is raw_id: item_id = str(raw_id),
\* new_id = id_map.get(item_id). acc = [n |-> replacements so far,
\* changes |-> ledger so far].
ReplaceId(item, item_id, new_id, champion, acc) ==
    IF new_id # "" /\ new_id # item_id
    THEN [item |-> [item EXCEPT !.id = StrId(new_id)],
          n |-> acc.n + 1,
          changes |-> LedgerAdd(acc.changes, champion, item_id)]
    ELSE [item |-> item, n |-> acc.n, changes |-> acc.changes]

\* ReplaceItem with the lookup done on the raw value instead of its string form.
ReplaceItem_RawLookup(item, id_map, champion, acc) ==
    IF ~item.isDict \/ item.id.t # "str"
    THEN [item |-> item, n |-> acc.n, changes |-> acc.changes]
    ELSE ReplaceId(item, Str(item.id), MapGet(id_map, Str(item.id)), champion, acc)

\* Lines 200-211: the body of the inner loop, for one element of "items".
ReplaceItem(item, id_map, champion, acc) ==
    IF ~item.isDict
    THEN [item |-> item, n |-> acc.n, changes |-> acc.changes]
    ELSE IF item.id.t = "null"
    THEN [item |-> item, n |-> acc.n, changes |-> acc.changes]
    ELSE ReplaceId(item, Str(item.id), MapGet(id_map, Str(item.id)), champion, acc)

\* for item in items: ... (from position i on)
RECURSIVE ReplaceItems(_, _, _, _, _)
ReplaceItemsFrom(items, i, id_map, champion, r) ==
    ReplaceItems([items EXCEPT ![i] = r.item], i + 1, id_map, champion,
                 [n |-> r.n, changes |-> r.changes])

ReplaceItems(items, i, id_map, champion, acc) ==
    IF i > Len(items)
    THEN [items |-> items, n |-> acc.n, changes |-> acc.changes]
    ELSE ReplaceItemsFrom(items, i, id_map, champion,
                          ReplaceItem(items[i], id_map, champion, acc))

\* Lines 194-199: the body of the outer loop, for one element of "blocks".
WithItems(block, r) ==
    [block |-> [block EXCEPT !.items = r.items], n |-> r.n, changes |-> r.changes]

ReplaceBlock(block, id_map, champion, acc) ==
    IF ~block.isDict
    THEN [block |-> block, n |-> acc.n, changes |-> acc.changes]
    ELSE IF ~block.itemsIsList
    THEN [block |-> block, n |-> acc.n, changes |-> acc.changes]
    ELSE WithItems(block, ReplaceItems(block.items, 1, id_map, champion, acc))

\* for block in blocks: ... (from position b on)
RECURSIVE ReplaceBlocks(_, _, _, _, _)
ReplaceBlocksFrom(blocks, b, id_map, champion, r) ==
    ReplaceBlocks([blocks EXCEPT ![b] = r.block], b + 1, id_map, champion,
                  [n |-> r.n, changes |-> r.changes])

ReplaceBlocks(blocks, b, id_map, champion, acc) ==
    IF b > Len(blocks)
    THEN [blocks |-> blocks, n |-> acc.n, changes |-> acc.changes]
    ELSE ReplaceBlocksFrom(blocks, b, id_map, champion,
                           ReplaceBlock(blocks[b], id_map, champion, acc))

WithBlocks(o, r) ==
    [obj |-> [o EXCEPT !.blocks = r.blocks], replacements |-> r.n, changes |-> r.changes]

\* replace_ids_in_itemset(obj, id_map, changes, champion): the (mutated) obj,
\* the replacement count, and the ledger as the call leaves it.
replace_ids_in_itemset(o, id_map, ch, champion) ==
    IF ~o.isDict
    THEN [obj |-> o, replacements |-> 0, changes |-> ch]
    ELSE IF ~o.blocksIsList
    THEN [obj |-> o, replacements |-> 0, changes |-> ch]
    ELSE WithBlocks(o, ReplaceBlocks(o.blocks, 1, id_map, champion, [n |-> 0, changes |-> ch]))

----------------------------------------------------------------------------
(* Files *)

\* What a file holds. "badbytes": bytes that are not valid UTF-8; "badjson":
\* text that is not valid JSON; "partial": what an interrupted write or copy
\* leaves behind (a proper prefix of a JSON text, never valid JSON); "locked":
\* a file that cannot be opened for reading; "json": a JSON text, given by its
\* layout (as the external tool wrote it, or as json.dump writes it) and the
\* value it parses to; "absent": no such file.
BadBytes == [kind |-> "badbytes", layout |-> "", val |-> NonDictTop]
BadJson == [kind |-> "badjson", layout |-> "", val |-> NonDictTop]
Partial == [kind |-> "partial", layout |-> "", val |-> NonDictTop]
Locked == [kind |-> "locked", layout |-> "", val |-> NonDictTop]
Absent == [kind |-> "absent", layout |-> "", val |-> NonDictTop]
JsonText(layout, val) == [kind |-> "json", layout |-> layout, val |-> val]

\* _json_load(path): the value, or the exception the open / read / parse raises.
_json_load(content) ==
    CASE content.kind = "locked" -> [exc |-> "OSError", val |-> NonDictTop]
      [] content.kind = "badbytes" -> [exc |-> "UnicodeDecodeError", val |-> NonDictTop]
      [] content.kind \in {"badjson", "partial"} -> [exc |-> "JSONDecodeError", val |-> NonDictTop]
      [] OTHER -> [exc |-> "", val |-> content.val]

\* _json_dump_minified(obj, path): what the file holds after a complete write.
_json_dump_minified(o) == JsonText("minified", o)

\* iter_itemset_json_files(root): <root>/<champion>/Recommended/<name>.json
Champions == << "Ahri", "Zed" >>
LocatedFiles ==
    [i \in 1..MaxFiles |-> [champion |-> Champions[((i - 1) % 2) + 1], name |-> i]]
Paths == {LocatedFiles[i] : i \in 1..MaxFiles}

\* _champion_name_from_path(root, json_path): rel.parts[0]
_champion_name_from_path(path) == path.champion

\* The files a directory may hold when the first run starts: item sets of one
\* block with at most two items, for the expected map or another one, and the
\* files that are no item set at all.
DirectoryIds == {StrId("3003"), StrId("9999")}
DirectoryItemLists == SeqsUpTo({DictItem(id) : id \in DirectoryIds}, 2)
InitialContents ==
    {BadBytes, BadJson, Locked, JsonText("original", NonDictTop),
     JsonText("original", DictTop("ARAM", << DictBlock(<< DictItem(StrId("3003")) >>) >>))}
    \cup {JsonText("original", DictTop(MAP_CODE, << DictBlock(items) >>)) :
            items \in DirectoryItemLists}

----------------------------------------------------------------------------
(* process_file, up to its first write to the file system *)

Ret(is_candidate, n, error) ==
    [done |-> TRUE, is_candidate |-> is_candidate, replacements |-> n, error |-> error]
NoRet == [done |-> FALSE, is_candidate |-> FALSE, replacements |-> 0, error |-> ""]

ErrIO == "I/O error"
ErrJSON == "Invalid JSON"
ErrRoot == "Unexpected JSON format (root is not an object)"

\* Lines 229-245: load, the two checks, the walk. "raise": an exception leaves
\* process_file; "return": process_file returns ret; "pending": replacements
\* were made and apply_changes is set, the backup and the write are still to come.
Outcome(kind, ret, o, ch, n) ==
    [kind |-> kind, ret |-> ret, obj |-> o, changes |-> ch, replacements |-> n]

\* AfterWalk writing back whenever replacements were made, dry run or not.
AfterWalk_IgnoresApply(r, apply) ==
    IF r.replacements > 0
    THEN Outcome("pending", NoRet, r.obj, r.changes, r.replacements)
    ELSE Outcome("return", Ret(TRUE, r.replacements, ""), r.obj, r.changes, r.replacements)

\* Lines 245-252 after the walk returned r.
AfterWalk(r, apply) ==
    IF r.replacements > 0 /\ apply
    THEN Outcome("pending", NoRet, r.obj, r.changes, r.replacements)
    ELSE Outcome("return", Ret(TRUE, r.replacements, ""), r.obj, r.changes, r.replacements)

\* AfterParse without the check of the "map" field.
AfterParse_NoMapCheck(val, path, id_map, ch, apply, map_code) ==
    IF ~val.isDict
    THEN Outcome("return", Ret(FALSE, 0, ErrRoot), NonDictTop, ch, 0)
    ELSE AfterWalk(replace_ids_in_itemset(val, id_map, ch, _champion_name_from_path(path)),
                   apply)

\* AfterParse skipping a top-level value that is no object without a message.
AfterParse_RootSilent(val, path, id_map, ch, apply, map_code) ==
    IF ~val.isDict
    THEN Outcome("return", Ret(FALSE, 0, ""), NonDictTop, ch, 0)
    ELSE IF val.map # map_code
    THEN Outcome("return", Ret(FALSE, 0, ""), NonDictTop, ch, 0)
    ELSE AfterWalk(replace_ids_in_itemset(val, id_map, ch, _champion_name_from_path(path)),
                   apply)

\* Lines 232-252, for the value val that _json_load returned.
AfterParse(val, path, id_map, ch, apply, map_code) ==
    IF ~val.isDict
    THEN Outcome("return", Ret(FALSE, 0, ErrRoot), NonDictTop, ch, 0)
    ELSE IF val.map # map_code
    THEN Outcome("return", Ret(FALSE, 0, ""), NonDictTop, ch, 0)
    ELSE AfterWalk(replace_ids_in_itemset(val, id_map, ch, _champion_name_from_path(path)),
                   apply)

\* Caught reporting a JSON syntax error as an I/O error.
Caught_JsonAsIO(exc, ch) ==
    CASE exc \in {"OSError", "JSONDecodeError"} ->
           Outcome("return", Ret(FALSE, 0, ErrIO), NonDictTop, ch, 0)
      [] OTHER ->
           Outcome("raise", NoRet, NonDictTop, ch, 0)

\* Lines 253-256: the two except clauses; any other exception leaves process_file.
Caught(exc, ch) ==
    CASE exc = "JSONDecodeError" ->
           Outcome("return", Ret(FALSE, 0, ErrJSON), NonDictTop, ch, 0)
      [] exc = "OSError" ->
           Outcome("return", Ret(FALSE, 0, ErrIO), NonDictTop, ch, 0)
      [] OTHER ->
           Outcome("raise", NoRet, NonDictTop, ch, 0)

\* Lines 229-256 up to the first write, after _json_load gave loaded.
AfterLoad(loaded, path, id_map, ch, apply, map_code) ==
    IF loaded.exc # ""
    THEN Caught(loaded.exc, ch)
    ELSE AfterParse(loaded.val, path, id_map, ch, apply, map_code)

process_file_load(content, path, id_map, ch, apply, map_code) ==
    AfterLoad(_json_load(content), path, id_map, ch, apply, map_code)

----------------------------------------------------------------------------
(* run_fix *)

RunStats(scanned, candidate, modified, replaced) ==
    [files_scanned |-> scanned, files_candidate_sr |-> candidate,
     files_modified |-> modified, ids_replaced |-> replaced]

Warning(i, error) == [file |-> i, error |-> error]

NoPrev ==
    [valid |-> FALSE, apply_changes |-> FALSE, backup |-> FALSE, phase |-> "idle",
     stats |-> RunStats(0, 0, 0, 0), changes |-> EmptyMap, warnings |-> << >>,
     modified_files |-> << >>, rets |-> [i \in 1..MaxFiles |-> NoRet], wfail |-> {},
     startDisk |-> [p \in Paths |-> Absent], startBak |-> [p \in Paths |-> Absent]]

NoCall ==
    [state |-> "none", obj |-> NonDictTop, champion |-> "", changes |-> EmptyMap,
     outObj |-> NonDictTop, outCount |-> 0, outChanges |-> EmptyMap]

\* RunResult as the worker thread hands it to the result queue, and None.
RunResult(s, ch, mf, w, seen) ==
    [isNone |-> FALSE, stats |-> s, changes |-> ch, modified_files |-> mf,
     warnings |-> w, champions_detected |-> seen]
None == [isNone |-> TRUE, stats |-> RunStats(0, 0, 0, 0), changes |-> EmptyMap,
         modified_files |-> << >>, warnings |-> << >>, champions_detected |-> {}]

\* start_gui up to the main loop: the Run button enabled, status "Ready", both
\* queues and the widgets empty, no worker thread.
start_gui ==
    [run_btn |-> "normal", status_var |-> "Ready", log_queue |-> << >>,
     result_queue |-> << >>, log_text |-> << >>, tree |-> EmptyMap,
     worker |-> "none", worker_run |-> 0, apply_changes |-> FALSE, backup |-> FALSE]

Init ==
    /\ disk \in [Paths -> InitialContents]
    /\ bak = [p \in Paths |-> Absent]
    /\ run = 0
    /\ phase = "idle"
    /\ apply_changes = FALSE
    /\ backup = FALSE
    /\ idx = 1
    /\ pc = "load"
    /\ obj = NonDictTop
    /\ replacements = 0
    /\ stats = RunStats(0, 0, 0, 0)
    /\ changes = EmptyMap
    /\ warnings = << >>
    /\ modified_files = << >>
    /\ champions_seen = {}
    /\ rets = [i \in 1..MaxFiles |-> NoRet]
    /\ wfail = {}
    /\ start = [disk |-> disk, bak |-> bak]
    /\ prev = NoPrev
    /\ call = NoCall
    /\ gui = start_gui

\* A call of run_fix(root, apply_changes=a, backup=b): lines 275-279. The first
\* call finds the directory as Init left it, the second as the first left it.
StartRun(a, b) ==
    /\ phase \in {"idle", "returned", "aborted"}
    /\ run < 2
    /\ run' = run + 1
    /\ phase' = "running"
    /\ apply_changes' = a
    /\ backup' = b
    /\ idx' = 1
    /\ pc' = "load"
    /\ obj' = NonDictTop
    /\ replacements' = 0
    /\ stats' = RunStats(0, 0, 0, 0)
    /\ changes' = EmptyMap
    /\ warnings' = << >>
    /\ modified_files' = << >>
    /\ champions_seen' = {}
    /\ rets' = [i \in 1..MaxFiles |-> NoRet]
    /\ wfail' = {}
    /\ start' = [disk |-> disk, bak |-> bak]
    /\ prev' = [valid |-> run > 0, apply_changes |-> apply_changes, backup |-> backup,
                phase |-> phase, stats |-> stats, changes |-> changes,
                warnings |-> warnings, modified_files |-> modified_files,
                rets |-> rets, wfail |-> wfail,
                startDisk |-> start.disk, startBak |-> start.bak]
    /\ UNCHANGED << disk, bak, call, gui >>

\* Lines 282-287: the loop counts the file before it calls process_file.
Scanned(s) == [s EXCEPT !.files_scanned = @ + 1]

\* Counted adding to files_modified only when the run applies its changes.
Counted_OnlyWhenApplied(s, ret) ==
    RunStats(s.files_scanned,
             s.files_candidate_sr + 1,
             s.files_modified + (IF ret.replacements # 0 /\ apply_changes THEN 1 ELSE 0),
             s.ids_replaced + ret.replacements)

\* Lines 307-312: the statistics after a candidate file.
Counted(s, ret) ==
    RunStats(s.files_scanned,
             s.files_candidate_sr + 1,
             s.files_modified + (IF ret.replacements # 0 THEN 1 ELSE 0),
             s.ids_replaced + ret.replacements)

\* Lines 298-314: what run_fix does with the value process_file returned for
\* file i, and the move to the next file.
Account(ret, i, s) ==
    /\ rets' = [rets EXCEPT ![i] = ret]
    /\ idx' = i + 1
    /\ pc' = "load"
    /\ obj' = NonDictTop
    /\ replacements' = 0
    /\ IF ret.error # ""
       THEN /\ warnings' = Append(warnings, Warning(i, ret.error))
            /\ stats' = s
            /\ UNCHANGED << modified_files, champions_seen >>
       ELSE IF ~ret.is_candidate
       THEN /\ stats' = s
            /\ UNCHANGED << warnings, modified_files, champions_seen >>
       ELSE /\ champions_seen' = champions_seen \cup {_champion_name_from_path(LocatedFiles[i])}
            /\ stats' = Counted(s, ret)
            /\ modified_files' = IF ret.replacements # 0
                                 THEN Append(modified_files, LocatedFiles[i])
                                 ELSE modified_files
            /\ UNCHANGED warnings

InLoop == phase = "running" /\ idx <= MaxFiles

Loaded == process_file_load(disk[LocatedFiles[idx]], LocatedFiles[idx], build_maps,
                            changes, apply_changes, MAP_CODE)

\* process_file returns without touching the file system.
Returns(out) ==
    /\ out.kind = "return"
    /\ changes' = out.changes
    /\ Account(out.ret, idx, Scanned(stats))

LoadReturns ==
    /\ InLoop /\ pc = "load"
    /\ Returns(Loaded)
    /\ UNCHANGED << disk, bak, run, phase, apply_changes, backup, wfail, start, prev, call, gui >>

\* _json_load raises an exception that neither except clause of process_file
\* catches: it leaves process_file and run_fix.
LoadRaises ==
    /\ InLoop /\ pc = "load"
    /\ Loaded.kind = "raise"
    /\ phase' = "aborted"
    /\ stats' = Scanned(stats)
    /\ UNCHANGED << disk, bak, run, apply_changes, backup, idx, pc, obj, replacements,
                    changes, warnings, modified_files, champions_seen, rets, wfail,
                    start, prev, call, gui >>

Pending(out) ==
    /\ out.kind = "pending"
    /\ changes' = out.changes
    /\ obj' = out.obj
    /\ replacements' = out.replacements

\* Line 245 holds: replacements were made and are to be applied.
LoadPending ==
    /\ InLoop /\ pc = "load"
    /\ Pending(Loaded)
    /\ stats' = Scanned(stats)
    /\ pc' = IF backup THEN "backup" ELSE "write"
    /\ UNCHANGED << disk, bak, run, phase, apply_changes, backup, idx, warnings,
                    modified_files, champions_seen, rets, wfail, start, prev, call, gui >>

\* BackupSkip copying over the backup that exists already.
BackupSkip_Overwrites ==
    /\ InLoop /\ pc = "backup"
    /\ bak[LocatedFiles[idx]] # Absent
    /\ bak' = [bak EXCEPT ![LocatedFiles[idx]] = disk[LocatedFiles[idx]]]
    /\ pc' = "write"
    /\ UNCHANGED << disk, run, phase, apply_changes, backup, idx, obj, replacements,
                    stats, changes, warnings, modified_files, champions_seen, rets,
                    wfail, start, prev, call, gui >>

\* Line 248: a backup exists already, nothing is copied.
BackupSkip ==
    /\ InLoop /\ pc = "backup"
    /\ bak[LocatedFiles[idx]] # Absent
    /\ pc' = "write"
    /\ UNCHANGED << disk, bak, run, phase, apply_changes, backup, idx, obj, replacements,
                    stats, changes, warnings, modified_files, champions_seen, rets,
                    wfail, start, prev, call, gui >>

\* Line 249: shutil.copy2 completes.
BackupCopy ==
    /\ InLoop /\ pc = "backup"
    /\ bak[LocatedFiles[idx]] = Absent
    /\ bak' = [bak EXCEPT ![LocatedFiles[idx]] = disk[LocatedFiles[idx]]]
    /\ pc' = "write"
    /\ UNCHANGED << disk, run, phase, apply_changes, backup, idx, obj, replacements,
                    stats, changes, warnings, modified_files, champions_seen, rets,
                    wfail, start, prev, call, gui >>

\* Line 249 raises OSError: before the backup file is created ("nofile"), with
\* part of the data copied ("partial"), or after the data, while copying the
\* file's metadata ("nostat"). Line 255 turns it into a return value.
CopyLeaves(how, content) ==
    CASE how = "nofile" -> Absent
      [] how = "partial" -> Partial
      [] OTHER -> content

\* BackupFails going on to the write-back after the failed copy.
BackupFails_GoesOn(how) ==
    /\ InLoop /\ pc = "backup"
    /\ bak[LocatedFiles[idx]] = Absent
    /\ bak' = [bak EXCEPT ![LocatedFiles[idx]] = CopyLeaves(how, disk[LocatedFiles[idx]])]
    /\ wfail' = wfail \cup {idx}
    /\ pc' = "write"
    /\ UNCHANGED << disk, run, phase, apply_changes, backup, idx, obj, replacements,
                    stats, changes, warnings, modified_files, champions_seen, rets,
                    start, prev, call, gui >>

BackupFails(how) ==
    /\ InLoop /\ pc = "backup"
    /\ bak[LocatedFiles[idx]] = Absent
    /\ bak' = [bak EXCEPT ![LocatedFiles[idx]] = CopyLeaves(how, disk[LocatedFiles[idx]])]
    /\ wfail' = wfail \cup {idx}
    /\ Account(Ret(FALSE, 0, ErrIO), idx, stats)
    /\ UNCHANGED << disk, run, phase, apply_changes, backup, changes, start, prev, call, gui >>

\* Line 250 completes; line 252 returns.
WriteOk ==
    /\ InLoop /\ pc = "write"
    /\ disk' = [disk EXCEPT ![LocatedFiles[idx]] = _json_dump_minified(obj)]
    /\ Account(Ret(TRUE, replacements, ""), idx, stats)
    /\ UNCHANGED << bak, run, phase, apply_changes, backup, changes, wfail, start, prev, call, gui >>

\* Line 250 raises OSError: the open fails and the file is as it was ("open"),
\* or the open has truncated the file and the write stops part-way ("partial").
WriteLeaves(how, content) == IF how = "open" THEN content ELSE Partial

WriteFails(how) ==
    /\ InLoop /\ pc = "write"
    /\ disk' = [disk EXCEPT ![LocatedFiles[idx]] = WriteLeaves(how, disk[LocatedFiles[idx]])]
    /\ wfail' = wfail \cup {idx}
    /\ Account(Ret(FALSE, 0, ErrIO), idx, stats)
    /\ UNCHANGED << bak, run, phase, apply_changes, backup, changes, start, prev, call, gui >>

\* Lines 316-319: the loop is over, run_fix returns its result.
FinishRun ==
    /\ phase = "running" /\ idx > MaxFiles
    /\ phase' = "returned"
    /\ UNCHANGED << disk, bak, run, apply_changes, backup, idx, pc, obj, replacements,
                    stats, changes, warnings, modified_files, champions_seen, rets,
                    wfail, start, prev, call, gui >>

Next ==
    \/ \E a \in BOOLEAN, b \in BOOLEAN : StartRun(a, b)
    \/ LoadReturns
    \/ LoadRaises
    \/ LoadPending
    \/ BackupSkip
    \/ BackupCopy
    \/ \E how \in {"nofile", "partial", "nostat"} : BackupFails(how)
    \/ WriteOk
    \/ \E how \in {"open", "partial"} : WriteFails(how)
    \/ FinishRun

Spec == Init /\ [][Next]_vars

----------------------------------------------------------------------------
(* replace_ids_in_itemset on its own: one call on an arbitrary item set *)

\* The item sets given to the call: every shape the walk distinguishes, with
\* ids that are mapped (as a string and as a number), unmapped, and missing.
WalkIds == {StrId("3003"), IntId(3003), StrId("3004"), StrId("9999"), NullId}
WalkItemSet == {NonDictItem} \cup {DictItem(id) : id \in WalkIds}
WalkBlockSet ==
    {NonDictBlock, NoItemsBlock} \cup {DictBlock(items) : items \in SeqsUpTo(WalkItemSet, MaxItems)}
WalkObjects ==
    {NonDictTop, NoBlocksTop(MAP_CODE)}
    \cup {DictTop(MAP_CODE, blocks) : blocks \in SeqsUpTo(WalkBlockSet, MaxBlocks)}
\* The ledger the call finds: empty, or holding an earlier file's count.
WalkLedgers == {EmptyMap, ("Ahri" :> ("3003" :> 1))}

InitReplace ==
    /\ disk = [p \in Paths |-> Absent]
    /\ bak = [p \in Paths |-> Absent]
    /\ run = 0
    /\ phase = "idle"
    /\ apply_changes = FALSE
    /\ backup = FALSE
    /\ idx = 1
    /\ pc = "load"
    /\ obj = NonDictTop
    /\ replacements = 0
    /\ stats = RunStats(0, 0, 0, 0)
    /\ changes = EmptyMap
    /\ warnings = << >>
    /\ modified_files = << >>
    /\ champions_seen = {}
    /\ rets = [i \in 1..MaxFiles |-> NoRet]
    /\ wfail = {}
    /\ start = [disk |-> disk, bak |-> bak]
    /\ prev = NoPrev
    /\ gui = start_gui
    /\ \E o \in WalkObjects, c \in {"Ahri", "Zed"}, ch \in WalkLedgers :
          call = [state |-> "ready", obj |-> o, champion |-> c, changes |-> ch,
                  outObj |-> NonDictTop, outCount |-> 0, outChanges |-> EmptyMap]

Returned(c, r) ==
    [c EXCEPT !.state = "done", !.outObj = r.obj, !.outCount = r.replacements,
              !.outChanges = r.changes]

\* obj, replacements = replace_ids_in_itemset(obj, id_map, changes, champion)
CallReplace ==
    /\ call.state = "ready"
    /\ call' = Returned(call, replace_ids_in_itemset(call.obj, build_maps, call.changes,
                                                     call.champion))
    /\ UNCHANGED << disk, bak, run, phase, apply_changes, backup, idx, pc, obj,
                    replacements, stats, changes, warnings, modified_files,
                    champions_seen, rets, wfail, start, prev, gui >>

NextReplace == CallReplace

SpecReplace == InitReplace /\ [][NextReplace]_vars

----------------------------------------------------------------------------
(* start_gui: on_run, the worker thread, pump *)

\* Line 524-526: clear_ui(), set_running(True), status_var.set("Running...");
\* line 528-529: the thread is created with the values apply_var and backup_var
\* hold at that moment, and started.
Started(g, a, b) ==
    [g EXCEPT !.tree = EmptyMap, !.log_text = << >>, !.run_btn = "disabled",
              !.status_var = "Running...", !.worker = "started", !.worker_run = run + 1,
              !.apply_changes = a, !.backup = b]

\* The Run button's command. The button invokes it only while it is enabled.
\* valid: the path field names an existing directory (lines 515-522; otherwise
\* an error box is shown and nothing else happens). a, b: the two check boxes.
on_run(valid, a, b) ==
    /\ gui.run_btn = "normal"
    /\ run < 2
    /\ gui' = IF valid THEN Started(gui, a, b) ELSE gui
    /\ UNCHANGED << disk, bak, run, phase, apply_changes, backup, idx, pc, obj,
                    replacements, stats, changes, warnings, modified_files,
                    champions_seen, rets, wfail, start, prev, call >>

\* Lines 502-504: the worker thread's two log lines.
worker_log ==
    /\ gui.worker = "started"
    /\ gui' = [gui EXCEPT !.log_queue = @ \o << "Root", "Mode" >>, !.worker = "calling"]
    /\ UNCHANGED << disk, bak, run, phase, apply_changes, backup, idx, pc, obj,
                    replacements, stats, changes, warnings, modified_files,
                    champions_seen, rets, wfail, start, prev, call >>

\* Line 506: the worker thread calls run_fix.
worker_run_fix ==
    /\ gui.worker = "calling"
    /\ run < gui.worker_run
    /\ StartRun(gui.apply_changes, gui.backup)

\* Lines 507-509: run_fix returned.
worker_put_result ==
    /\ gui.worker = "calling"
    /\ run = gui.worker_run
    /\ phase = "returned"
    /\ gui' = [gui EXCEPT !.log_queue = Append(@, "Done in"),
                          !.result_queue = Append(@, RunResult(stats, changes, modified_files,
                                                                warnings, champions_seen)),
                          !.worker = "ended"]
    /\ UNCHANGED << disk, bak, run, phase, apply_changes, backup, idx, pc, obj,
                    replacements, stats, changes, warnings, modified_files,
                    champions_seen, rets, wfail, start, prev, call >>

\* Lines 510-512: run_fix raised an exception.
worker_put_none ==
    /\ gui.worker = "calling"
    /\ run = gui.worker_run
    /\ phase = "aborted"
    /\ gui' = [gui EXCEPT !.log_queue = Append(@, "ERROR"),
                          !.result_queue = Append(@, None),
                          !.worker = "ended"]
    /\ UNCHANGED << disk, bak, run, phase, apply_changes, backup, idx, pc, obj,
                    replacements, stats, changes, warnings, modified_files,
                    champions_seen, rets, wfail, start, prev, call >>

\* Lines 543-546: result_queue.get_nowait(), with res = None when it raises Empty.
GetNowait(q) == IF q = << >> THEN None ELSE Head(q)
AfterGet(q) == IF q = << >> THEN q ELSE Tail(q)

\* Lines 555-568: the lines pump appends to the log for a result.
ReportLines(res, applied) ==
    [k \in 1..Len(res.warnings) |-> res.warnings[k].error]
    \o (IF res.champions_detected # {} THEN << "Detected champions" >> ELSE << >>)
    \o << "Summary" >>
    \o << IF applied THEN "Applied changes" ELSE "Dry-run" >>

\* Lines 535-571: the widgets and queues after one call of pump that got res.
Pumped(g, res, applied) ==
    IF res.isNone
    THEN [g EXCEPT !.log_queue = << >>,
                   !.result_queue = AfterGet(@),
                   !.log_text = g.log_text \o g.log_queue]
    ELSE [g EXCEPT !.log_queue = << >>,
                   !.result_queue = AfterGet(@),
                   !.log_text = g.log_text \o g.log_queue \o ReportLines(res, applied),
                   !.tree = res.changes,
                   !.status_var = "Done",
                   !.run_btn = "normal"]

\* One call of pump (it re-arms its timer at line 573). applied: what apply_var
\* holds when line 565 reads it.
pump(applied) ==
    /\ gui' = Pumped(gui, GetNowait(gui.result_queue), applied)
    /\ UNCHANGED << disk, bak, run, phase, apply_changes, backup, idx, pc, obj,
                    replacements, stats, changes, warnings, modified_files,
                    champions_seen, rets, wfail, start, prev, call >>

\* The steps of the worker thread.
Worker ==
    \/ worker_log
    \/ worker_run_fix
    \/ LoadReturns
    \/ LoadRaises
    \/ LoadPending
    \/ BackupSkip
    \/ BackupCopy
    \/ \E how \in {"nofile", "partial", "nostat"} : BackupFails(how)
    \/ WriteOk
    \/ \E how \in {"open", "partial"} : WriteFails(how)
    \/ FinishRun
    \/ worker_put_result
    \/ worker_put_none

Timer == \E applied \in BOOLEAN : pump(applied)

NextGui ==
    \/ \E valid \in BOOLEAN, a \in BOOLEAN, b \in BOOLEAN : on_run(valid, a, b)
    \/ Worker
    \/ Timer

\* The worker thread keeps running until it ends, and the Tk main loop keeps
\* calling pump every 100 ms.
SpecGui == Init /\ [][NextGui]_vars /\ WF_vars(Worker) /\ WF_vars(Timer)

----------------------------------------------------------------------------
(* C1 *)

\* The positions << b, i >> of the item objects of o: elements of the "items"
\* list of an element of the "blocks" list, all of them objects.
ItemObjects(o) ==
    IF ~(o.isDict /\ o.blocksIsList) THEN {}
    ELSE {p \in UNION {{<< b, i >> : i \in 1..Len(o.blocks[b].items)} : b \in 1..Len(o.blocks)} :
            /\ o.blocks[p[1]].isDict
            /\ o.blocks[p[1]].itemsIsList
            /\ o.blocks[p[1]].items[p[2]].isDict}

IdAt(o, p) == o.blocks[p[1]].items[p[2]].id

\* An "id" value whose string form is a key of the map.
IsMapped(id) == id.t # "null" /\ Str(id) \in DOMAIN EMBEDDED_ITEM_MAP

\* The item objects whose "id" has a string form that is a key of the map.
MappedItems(o) == {p \in ItemObjects(o) : IsMapped(IdAt(o, p))}

LedgerCount(ch, champion, old_id) ==
    IF champion \in DOMAIN ch /\ old_id \in DOMAIN ch[champion] THEN ch[champion][old_id] ELSE 0

LedgerKeys(ch) == UNION {DOMAIN ch[c] : c \in DOMAIN ch}

\* What the claim says the call leaves behind: each mapped id of an item object
\* overwritten with the mapped new id (a string), everything else as it was.
OverwrittenItem(item) ==
    IF item.isDict /\ IsMapped(item.id)
    THEN [item EXCEPT !.id = StrId(EMBEDDED_ITEM_MAP[Str(item.id)])]
    ELSE item

OverwrittenBlock(block) ==
    IF block.isDict /\ block.itemsIsList
    THEN [block EXCEPT !.items = [i \in 1..Len(block.items) |-> OverwrittenItem(block.items[i])]]
    ELSE block

Overwritten(o) ==
    IF o.isDict /\ o.blocksIsList
    THEN [o EXCEPT !.blocks = [b \in 1..Len(o.blocks) |-> OverwrittenBlock(o.blocks[b])]]
    ELSE o

\* C1: after replace_ids_in_itemset returns, every "id" of an item object whose
\* string form is a key of the identifier map holds the mapped new id and every
\* other part of the value is as it was; the returned count is the number of
\* overwritten ids; and each ledger entry (champion, old id) has grown by the
\* number of item objects of the file whose id had that string form (entries
\* of other champions and of ids that do not occur are as they were).
C1_ReplaceOverwritesMappedIds ==
    call.state = "done" =>
        LET mapped == MappedItems(call.obj)
            olds == {Str(IdAt(call.obj, p)) : p \in mapped}
        IN  /\ call.outObj = Overwritten(call.obj)
            /\ call.outCount = Cardinality(mapped)
            /\ \A c \in DOMAIN call.outChanges \cup DOMAIN call.changes \cup {call.champion} :
                 \A k \in LedgerKeys(call.outChanges) \cup LedgerKeys(call.changes) \cup olds :
                    LedgerCount(call.outChanges, c, k) =
                        LedgerCount(call.changes, c, k)
                        + (IF c = call.champion
                           THEN Cardinality({p \in mapped : Str(IdAt(call.obj, p)) = k})
                           ELSE 0)
            /\ (call.outCount = 0 => call.outChanges = call.changes)

\* A call on an item set holding "3003" (mapped) and "9999" (unmapped), for a
\* champion the ledger does not know yet: one replacement, ledger {"3003": 1}.
C1_Witness ==
    /\ call.state = "done"
    /\ call.champion \notin DOMAIN call.changes
    /\ \E p, q \in ItemObjects(call.obj) :
          /\ IdAt(call.obj, p) = StrId("3003") /\ IdAt(call.outObj, p) = StrId("323003")
          /\ IdAt(call.obj, q) = StrId("9999") /\ IdAt(call.outObj, q) = StrId("9999")
    /\ call.outCount = 1
    /\ call.outChanges[call.champion] = ("3003" :> 1)

----------------------------------------------------------------------------
(* Claims about run_fix and process_file *)

Files == 1..MaxFiles
PathOf(i) == LocatedFiles[i]

WarningsFor(i) == {k \in 1..Len(warnings) : warnings[k].file = i}
InModified(i) == \E k \in 1..Len(modified_files) : modified_files[k] = PathOf(i)

NonMatching(c) == c.kind = "json" /\ c.val.isDict /\ c.val.map # MAP_CODE
NonObject(c) == c.kind = "json" /\ ~c.val.isDict
InvalidJson(c) == c.kind \in {"badjson", "partial"}

\* Both runs of the behaviour were made in apply mode.
TwoApplyRuns == run = 2 /\ prev.valid /\ prev.apply_changes /\ apply_changes

C3_Original ==
    (run >= 1 /\ backup /\ phase = "returned" /\ prev.phase # "aborted") =>
        \A p \in Paths :
            /\ disk[p] # start.disk[p] => bak[p] = start.disk[p]
            /\ start.bak[p] # Absent => bak[p] = start.bak[p]

\* C3, amended: in a run with backups enabled, a modified file that had no
\* backup before the run has a backup equal to its content before the run; and
\* a backup that existed before a run is never changed by it (a modified file
\* that had one keeps it, whatever it holds).
C3_BackupInvariant ==
    \A p \in Paths :
        /\ (run >= 1 /\ backup /\ disk[p] # start.disk[p] /\ start.bak[p] = Absent) =>
               bak[p] = start.disk[p]
        /\ start.bak[p] # Absent => bak[p] = start.bak[p]

\* A run with backups has returned; it made the backup of one file it modified
\* and kept the older backup of another file it modified.
C3_Witness ==
    /\ run >= 1 /\ backup /\ phase = "returned"
    /\ \E p, q \in Paths :
          /\ disk[p] # start.disk[p] /\ start.bak[p] = Absent /\ bak[p] = start.disk[p]
          /\ disk[q] # start.disk[q] /\ start.bak[q] # Absent /\ bak[q] = start.bak[q]

\* C4: in a run with apply_changes=false, whatever the backup flag, every file
\* holds what it held when the run started and no backup file has appeared or
\* changed.
C4_DryRunWritesNothing ==
    (run >= 1 /\ ~apply_changes) => (disk = start.disk /\ bak = start.bak)

\* A dry run with the backup flag set has returned and reported replacements.
C4_Witness ==
    /\ run >= 1 /\ ~apply_changes /\ backup /\ phase = "returned"
    /\ stats.files_modified > 0 /\ stats.ids_replaced > 0
    /\ \A p \in Paths : bak[p] = Absent

\* A dry run that returned, followed by an apply run (on the directory as the
\* dry run found it) that returned.
DryThenApply ==
    /\ run = 2 /\ prev.valid /\ ~prev.apply_changes /\ apply_changes
    /\ prev.phase = "returned" /\ phase = "returned"

SameReport ==
    /\ stats = prev.stats
    /\ modified_files = prev.modified_files
    /\ changes = prev.changes

C6_NonMatchingUntouched ==
    /\ [](\A i \in Files :
            NonMatching(start.disk[PathOf(i)]) =>
                /\ disk[PathOf(i)] = start.disk[PathOf(i)]
                /\ bak[PathOf(i)] = Absent
                /\ ~InModified(i)
                /\ WarningsFor(i) = {}
                /\ rets[i].done => rets[i] = Ret(FALSE, 0, ""))
    /\ [][(InLoop /\ NonMatching(disk[PathOf(idx)])) =>
            /\ idx' = idx + 1
            /\ stats' = [stats EXCEPT !.files_scanned = @ + 1]
            /\ modified_files' = modified_files
            /\ changes' = changes
            /\ warnings' = warnings
            /\ disk' = disk /\ bak' = bak]_vars

\* An apply run with backups has returned after it processed a file with another
\* map and modified a file with the expected one.
C6_Witness ==
    /\ phase = "returned" /\ apply_changes /\ backup
    /\ \E i, j \in Files :
          /\ NonMatching(start.disk[PathOf(i)]) /\ rets[i] = Ret(FALSE, 0, "")
          /\ InModified(j)
    /\ stats.files_scanned = MaxFiles /\ stats.files_candidate_sr = 1

\* C7 as stated: for a file that is valid JSON but no object, process_file
\* returns (False, 0, "") and the run records no warning.
C7_Original ==
    \A i \in Files :
        (run >= 1 /\ rets[i].done /\ NonObject(start.disk[PathOf(i)])) =>
            /\ rets[i] = Ret(FALSE, 0, "")
            /\ WarningsFor(i) = {}

\* C7, amended: for such a file process_file returns is_candidate=false,
\* count=0 and the error string "Unexpected JSON format (root is not an
\* object)", the run records exactly one warning for the file, with that
\* text, and the file is not changed and not listed as modified.
C7_NonObjectIsWarned ==
    \A i \in Files :
        (run >= 1 /\ rets[i].done /\ NonObject(start.disk[PathOf(i)])) =>
            /\ rets[i] = Ret(FALSE, 0, ErrRoot)
            /\ Cardinality(WarningsFor(i)) = 1
            /\ \A k \in WarningsFor(i) : warnings[k].error = ErrRoot
            /\ disk[PathOf(i)] = start.disk[PathOf(i)]
            /\ ~InModified(i)

\* A run has returned with the warning of a file whose top-level value is no object.
C7_Witness ==
    /\ phase = "returned"
    /\ \E i \in Files : NonObject(start.disk[PathOf(i)]) /\ rets[i] = Ret(FALSE, 0, ErrRoot)
    /\ Len(warnings) = 1

\* C8: no call of run_fix ends with an exception (every condition of a single
\* file comes back from process_file as a value), and a call that has returned
\* has processed and counted every located file.
C8_RunFixNeverAborts ==
    /\ phase # "aborted"
    /\ phase = "returned" =>
         /\ stats.files_scanned = MaxFiles
         /\ \A i \in Files : rets[i].done

\* C9: once a file with invalid JSON syntax has been processed, process_file
\* has returned (False, 0, "Invalid JSON..."), the run holds exactly one warning
\* for the file, saying invalid JSON, the file is counted as scanned, not as a
\* candidate and not as modified, its content is unchanged, and the loop has
\* gone on to the next file.
C9_InvalidJsonIsOneWarning ==
    \A i \in Files :
        (run >= 1 /\ rets[i].done /\ InvalidJson(start.disk[PathOf(i)])) =>
            /\ rets[i] = Ret(FALSE, 0, ErrJSON)
            /\ Cardinality(WarningsFor(i)) = 1
            /\ \A k \in WarningsFor(i) : warnings[k].error = ErrJSON
            /\ ~InModified(i)
            /\ disk[PathOf(i)] = start.disk[PathOf(i)]
            /\ stats.files_scanned >= i
            /\ stats.files_candidate_sr =
                  Cardinality({j \in Files : rets[j].done /\ rets[j].is_candidate})
            /\ stats.files_modified = Len(modified_files)
            /\ idx > i

\* The first located file holds invalid JSON; the run went on and modified the
\* next one.
C9_Witness ==
    /\ phase = "returned"
    /\ InvalidJson(start.disk[PathOf(1)]) /\ rets[1] = Ret(FALSE, 0, ErrJSON)
    /\ InModified(2)
    /\ Len(warnings) = 1 /\ stats.files_scanned = MaxFiles /\ stats.files_candidate_sr = 1

\* C10 as stated, its conclusion: in a run with apply_changes and backup both
\* true there is no state in which a file's content from before the run is
\* neither in the file nor in its backup.
C10_Original ==
    (run >= 1 /\ apply_changes /\ backup /\ phase # "aborted" /\ prev.phase # "aborted") =>
        \A p \in Paths : disk[p] = start.disk[p] \/ bak[p] = start.disk[p]

\* C10, amended: in a run with backup true, a step that overwrites (or
\* truncates) a file finds its backup file in place, complete or older than the
\* run, and leaves it alone; the step in which the backup copy fails ends
\* process_file for that file with the file as it was; so for a file that had
\* no backup when the run started there is no state in which its content from
\* before the run is neither in the file nor in its backup.
C10_BackupBeforeOverwrite ==
    /\ [][\A p \in Paths :
            (backup /\ disk'[p] # disk[p]) =>
                /\ bak[p] # Absent
                /\ bak'[p] = bak[p]
                /\ start.bak[p] = Absent => bak[p] = disk[p]]_vars
    /\ [][(pc = "backup" /\ wfail' # wfail) =>
            /\ disk' = disk
            /\ idx' = idx + 1 /\ pc' = "load"
            /\ rets'[idx] = Ret(FALSE, 0, ErrIO)]_vars
    /\ [](\A p \in Paths :
            (run >= 1 /\ apply_changes /\ backup /\ start.bak[p] = Absent) =>
                (disk[p] = start.disk[p] \/ bak[p] = start.disk[p]))

\* An apply run with backups in which the backup copy of one file failed and the
\* file was left alone, and another file was overwritten after its backup.
C10_Witness ==
    /\ run >= 1 /\ apply_changes /\ backup /\ phase = "returned"
    /\ \E i, j \in Files :
          /\ i \in wfail /\ disk[PathOf(i)] = start.disk[PathOf(i)]
          /\ bak[PathOf(i)] = Partial
          /\ disk[PathOf(j)] # start.disk[PathOf(j)] /\ bak[PathOf(j)] = start.disk[PathOf(j)]

----------------------------------------------------------------------------
(* C11 *)

\* The sum of the counts ch[c][k] over the pairs << c, k >> of S.
RECURSIVE SumOver(_, _)
SumOver(ch, S) ==
    IF S = {} THEN 0
    ELSE LET e == CHOOSE x \in S : TRUE
         IN  ch[e[1]][e[2]] + SumOver(ch, S \ {e})

LedgerSum(ch) == SumOver(ch, UNION {{<< c, k >> : k \in DOMAIN ch[c]} : c \in DOMAIN ch})

\* The grouping keys of the files listed in modified_files.
ModifiedChampions ==
    {_champion_name_from_path(modified_files[k]) : k \in 1..Len(modified_files)}

\* C11: whenever run_fix has returned, the counts of the Change Ledger add up
\* to stats.ids_replaced and every grouping key of the ledger is that of a
\* file listed in modified_files, also in a run in which a backup copy or a
\* write-back failed.
C11_LedgerAgreesWithStats ==
    (run >= 1 /\ phase = "returned") =>
        /\ LedgerSum(changes) = stats.ids_replaced
        /\ DOMAIN changes \subseteq ModifiedChampions

----------------------------------------------------------------------------
(* C12 *)

\* The worker thread of the latest run has ended and pump has taken everything
\* out of the result queue.
OutcomeReceived == gui.worker = "ended" /\ gui.result_queue = << >>

\* C12: once on_run has disabled the Run button and started the worker, pump
\* receives that run's outcome from the result queue, sets the status to "Done"
\* and enables the Run button again, whether the worker put a RunResult or
\* (after an exception of run_fix) None. As a state property: when the worker
\* has ended and pump has taken its outcome from the queue, the status is
\* "Done" and the button is enabled.
C12_GuiRunCompletes ==
    OutcomeReceived => (gui.status_var = "Done" /\ gui.run_btn = "normal")

====
